---- MODULE Spec2Model ----
(***************************************************************************)
(* NF-e extraction, PO resolution and aggregation pipeline of              *)
(* pages/02_upgrade_xml.py (the same code is repeated in                   *)
(* pages/update_xml.py).  The script is modelled step by step: one action  *)
(* per statement group of the "Processar" branch, in program order.        *)
(*                                                                         *)
(* Representation.                                                         *)
(*   - text is a TLA+ string; Len, SubSeq and \o act on its characters;    *)
(*   - a cell that pandas may hold as NaN/None is <<>> (NaN) or <<v>>;     *)
(*   - a float amount is an integer number of hundredths ("cents");        *)
(*   - an integer-valued number too large for a machine integer (a tax id, *)
(*     a PO number) is its canonical decimal digit string, and the dtype   *)
(*     of its column (int64 / float64) is kept in dtypes.                  *)
(***************************************************************************)
EXTENDS Integers, Sequences, FiniteSets, TLC

VARIABLES all_files, fileIdx, dados, df, dtypes, df_po, pc, error

vars == <<all_files, fileIdx, dados, df, dtypes, df_po, pc, error>>

\* Largest number of files in the directory listing.
MaxFiles == 2

NaN == <<>>

Some(v) == <<v>>

IsNaN(c) == c = <<>>

(***************************************************************************)
(* Python str primitives                                                   *)
(***************************************************************************)
Digits == {"0", "1", "2", "3", "4", "5", "6", "7", "8", "9"}

CharAt(s, i) == SubSeq(s, i, i)

\* s[:n]
Prefix(s, n) == IF Len(s) <= n THEN s ELSE SubSeq(s, 1, n)

\* s[-n:] for 0 < n
Suffix(s, n) == IF Len(s) <= n THEN s ELSE SubSeq(s, Len(s) - n + 1, Len(s))

\* s[:-n] for 0 < n
DropLast(s, n) == IF Len(s) <= n THEN "" ELSE SubSeq(s, 1, Len(s) - n)

startswith(s, p) == Len(s) >= Len(p) /\ SubSeq(s, 1, Len(p)) = p

IsDigits(s) == Len(s) > 0 /\ \A i \in 1..Len(s) : CharAt(s, i) \in Digits

RECURSIVE Replace(_, _, _)
\* str.replace(old, new) for a one-character old
Replace(s, old, new) ==
    IF s = "" THEN ""
    ELSE (IF CharAt(s, 1) = old THEN new ELSE CharAt(s, 1)) \o Replace(Tail(s), old, new)

RECURSIVE Repeat(_, _)
Repeat(c, n) == IF n <= 0 THEN "" ELSE c \o Repeat(c, n - 1)

\* str.zfill(width): pads after a leading sign
zfill(s, width) ==
    IF Len(s) >= width THEN s
    ELSE IF s /= "" /\ CharAt(s, 1) \in {"-", "+"}
         THEN CharAt(s, 1) \o Repeat("0", width - Len(s)) \o Tail(s)
         ELSE Repeat("0", width - Len(s)) \o s

RECURSIVE SplitFrom(_, _, _)
\* str.split(): the maximal runs of non-blank characters, in order
SplitFrom(s, i, word) ==
    IF i > Len(s) THEN (IF word = "" THEN <<>> ELSE <<word>>)
    ELSE IF CharAt(s, i) = " "
         THEN (IF word = "" THEN <<>> ELSE <<word>>) \o SplitFrom(s, i + 1, "")
         ELSE SplitFrom(s, i + 1, word \o CharAt(s, i))

split(s) == SplitFrom(s, 1, "")

RECURSIVE join(_, _)
\* sep.join(words)
join(sep, words) ==
    IF words = <<>> THEN ""
    ELSE IF Len(words) = 1 THEN words[1]
    ELSE words[1] \o sep \o join(sep, Tail(words))

RECURSIVE SquashSpaces(_, _)
\* re.sub(' +', ' ', s)
SquashSpaces(s, i) ==
    IF i > Len(s) THEN ""
    ELSE IF CharAt(s, i) = " " /\ i > 1 /\ CharAt(s, i - 1) = " "
         THEN SquashSpaces(s, i + 1)
         ELSE CharAt(s, i) \o SquashSpaces(s, i + 1)

RECURSIVE lstrip(_)
lstrip(s) == IF s /= "" /\ CharAt(s, 1) = " " THEN lstrip(Tail(s)) ELSE s

RECURSIVE rstrip(_)
rstrip(s) == IF s /= "" /\ CharAt(s, Len(s)) = " " THEN rstrip(DropLast(s, 1)) ELSE s

strip(s) == rstrip(lstrip(s))

UpperOf(c) ==
    CASE c = "a" -> "A" [] c = "b" -> "B" [] c = "c" -> "C" [] c = "d" -> "D"
      [] c = "e" -> "E" [] c = "f" -> "F" [] c = "g" -> "G" [] c = "h" -> "H"
      [] c = "i" -> "I" [] c = "j" -> "J" [] c = "k" -> "K" [] c = "l" -> "L"
      [] c = "m" -> "M" [] c = "n" -> "N" [] c = "o" -> "O" [] c = "p" -> "P"
      [] c = "q" -> "Q" [] c = "r" -> "R" [] c = "s" -> "S" [] c = "t" -> "T"
      [] c = "u" -> "U" [] c = "v" -> "V" [] c = "w" -> "W" [] c = "x" -> "X"
      [] c = "y" -> "Y" [] c = "z" -> "Z" [] OTHER -> c

RECURSIVE upper(_)
upper(s) == IF s = "" THEN "" ELSE UpperOf(CharAt(s, 1)) \o upper(Tail(s))

(***************************************************************************)
(* Python number primitives                                                *)
(***************************************************************************)
DigitVal(c) ==
    CASE c = "0" -> 0 [] c = "1" -> 1 [] c = "2" -> 2 [] c = "3" -> 3
      [] c = "4" -> 4 [] c = "5" -> 5 [] c = "6" -> 6 [] c = "7" -> 7
      [] c = "8" -> 8 [] c = "9" -> 9

DigitChar(d) ==
    CASE d = 0 -> "0" [] d = 1 -> "1" [] d = 2 -> "2" [] d = 3 -> "3"
      [] d = 4 -> "4" [] d = 5 -> "5" [] d = 6 -> "6" [] d = 7 -> "7"
      [] d = 8 -> "8" [] d = 9 -> "9"

RECURSIVE NatOf(_)
\* value of a digit string
NatOf(s) == IF s = "" THEN 0 ELSE NatOf(DropLast(s, 1)) * 10 + DigitVal(CharAt(s, Len(s)))

RECURSIVE NatStr(_)
NatStr(n) == IF n < 10 THEN DigitChar(n) ELSE NatStr(n \div 10) \o DigitChar(n % 10)

\* str(n) for an int n
IntStr(n) == IF n < 0 THEN "-" \o NatStr(0 - n) ELSE NatStr(n)

RECURSIVE FindChar(_, _, _)
\* position of the first c in s at or after i, 0 when there is none
FindChar(s, c, i) ==
    IF i > Len(s) THEN 0 ELSE IF CharAt(s, i) = c THEN i ELSE FindChar(s, c, i + 1)

\* The unsigned decimal literals float() accepts, with at most two fraction
\* digits (the amounts of the model have no more): "12", "12.", "12.3",
\* "12.34", ".5".
IsUnsignedDecimal(s) ==
    LET dot == FindChar(s, ".", 1) IN
    IF dot = 0 THEN IsDigits(s)
    ELSE LET ip == SubSeq(s, 1, dot - 1)
             fp == SubSeq(s, dot + 1, Len(s))
         IN /\ ip = "" \/ IsDigits(ip)
            /\ fp = "" \/ IsDigits(fp)
            /\ ip /= "" \/ fp /= ""
            /\ Len(fp) <= 2

UnsignedCents(s) ==
    LET dot == FindChar(s, ".", 1) IN
    IF dot = 0 THEN NatOf(s) * 100
    ELSE LET ip == SubSeq(s, 1, dot - 1)
             fp == SubSeq(s, dot + 1, Len(s))
         IN NatOf(ip) * 100 + (IF Len(fp) = 1 THEN NatOf(fp) * 10 ELSE NatOf(fp))

HasSign(s) == s /= "" /\ CharAt(s, 1) \in {"-", "+"}

\* float(s) succeeds
IsFloatLiteral(s) == IsUnsignedDecimal(IF HasSign(s) THEN Tail(s) ELSE s)

\* float(s), in hundredths
FloatCents(s) ==
    IF HasSign(s)
    THEN (IF CharAt(s, 1) = "-" THEN 0 - UnsignedCents(Tail(s)) ELSE UnsignedCents(Tail(s)))
    ELSE UnsignedCents(s)

\* int(x) of a float x given in hundredths: truncation toward zero
IntOfCents(c) == IF c < 0 THEN 0 - ((0 - c) \div 100) ELSE c \div 100

(***************************************************************************)
(* Generic sequence helpers (pandas row order is the order of the sequence) *)
(***************************************************************************)
\* (k :> v) @@ r: the row r with column k set to v (added when absent)
With(r, k, v) == (k :> v) @@ r

\* the columns cols of row r
Cols(r, cols) == [k \in cols |-> r[k]]

\* a drop_duplicates with keep='last': a row stays when no later row has
\* its key
KeepFirst_keeps_last(rows, keys) ==
    LET f[i \in 0..Len(rows)] ==
            IF i = 0 THEN <<>>
            ELSE IF \E j \in (i + 1)..Len(rows) : keys[j] = keys[i]
                 THEN f[i - 1]
                 ELSE Append(f[i - 1], rows[i])
    IN f[Len(rows)]

\* DataFrame.drop_duplicates(subset=...), keep='first': a row stays when no
\* earlier row has its key; keys[i] is the value of the subset in rows[i]
KeepFirst(rows, keys) ==
    LET f[i \in 0..Len(rows)] ==
            IF i = 0 THEN <<>>
            ELSE IF \E j \in 1..(i - 1) : keys[j] = keys[i]
                 THEN f[i - 1]
                 ELSE Append(f[i - 1], rows[i])
    IN f[Len(rows)]

RECURSIVE SumCents(_)
\* Series.sum(): NaN cells are skipped, the empty sum is 0
SumCents(cells) ==
    IF cells = <<>> THEN 0
    ELSE (IF IsNaN(Head(cells)) THEN 0 ELSE Head(cells)[1]) + SumCents(Tail(cells))

\* Series.count(): the number of non-NaN cells
CountCells(cells) == Cardinality({i \in 1..Len(cells) : ~IsNaN(cells[i])})

CharCode(c) ==
    CASE c = " " -> 32 [] c = "+" -> 43 [] c = "-" -> 45 [] c = "." -> 46
      [] c = "/" -> 47 [] c \in Digits -> 48 + DigitVal(c) [] c = ":" -> 58
      [] c = "T" -> 84 [] OTHER -> 100

RECURSIVE StrLess(_, _)
\* a < b for Python str
StrLess(a, b) ==
    IF b = "" THEN FALSE
    ELSE IF a = "" THEN TRUE
    ELSE IF CharAt(a, 1) = CharAt(b, 1) THEN StrLess(Tail(a), Tail(b))
    ELSE CharCode(CharAt(a, 1)) < CharCode(CharAt(b, 1))

\* a < b for two canonical digit strings taken as numbers
NumLess(a, b) == Len(a) < Len(b) \/ (Len(a) = Len(b) /\ StrLess(a, b))

\* a before b in sort_values(by='Data de Emissão', ascending=False)
DtEmiLess(a, b) == StrLess(b.dtEmi, a.dtEmi)

\* order of the group keys (chNfe, po) in the result of groupby (sort=True)
GroupLess(a, b) ==
    \/ StrLess(a.chNfe, b.chNfe)
    \/ a.chNfe = b.chNfe /\ NumLess(a.po, b.po)

\* the final order with the issue date ascending
FinalLess_date_ascending(a, b) ==
    \/ StrLess(a.dtEmi, b.dtEmi)
    \/ /\ a.dtEmi = b.dtEmi
       /\ \/ ~IsNaN(a.nNf) /\ (IsNaN(b.nNf) \/ NumLess(a.nNf[1], b.nNf[1]))
          \/ a.nNf = b.nNf /\ a.itemNf < b.itemNf

\* a before b in sort_values(by=['dtEmi','nNf','itemNf'],
\* ascending=[False,True,True]); NaN sorts last
FinalLess(a, b) ==
    \/ StrLess(b.dtEmi, a.dtEmi)
    \/ /\ a.dtEmi = b.dtEmi
       /\ \/ ~IsNaN(a.nNf) /\ (IsNaN(b.nNf) \/ NumLess(a.nNf[1], b.nNf[1]))
          \/ a.nNf = b.nNf /\ a.itemNf < b.itemNf

\* a before b in the order named by
Less(by, a, b) ==
    CASE by = "dtEmi" -> DtEmiLess(a, b)
      [] by = "group" -> GroupLess(a, b)
      [] by = "final" -> FinalLess(a, b)

\* x put into the sorted sequence s behind every element that is not
\* greater than it
InsertSorted(s, x, by) ==
    LET before == {k \in 1..Len(s) : Less(by, x, s[k])}
        pos == IF before = {} THEN Len(s) + 1
               ELSE CHOOSE k \in before : \A m \in before : k <= m
    IN SubSeq(s, 1, pos - 1) \o <<x>> \o SubSeq(s, pos, Len(s))

\* A stable sort.  sort_values sorts one key with numpy's quicksort, which
\* is an insertion sort (stable) below 16 elements, and several keys with a
\* lexsort (stable); the frames of the model stay below 16 rows.
StableSort(rows, by) ==
    LET f[i \in 0..Len(rows)] ==
            IF i = 0 THEN <<>> ELSE InsertSorted(f[i - 1], rows[i], by)
    IN f[Len(rows)]

(***************************************************************************)
(* The script's functions                                                  *)
(***************************************************************************)
clean_description(description) == strip(SquashSpaces(description, 1))

\* the prefix list with its last entry lost
prefixos_without_4505 == <<"4501", "4502", "4503", "4504">>

prefixos == <<"4501", "4502", "4503", "4504", "4505">>

IsHint(p) == \E k \in 1..Len(prefixos) : startswith(p, prefixos[k])

\* [p[:10] for p in palavras if any(p.startswith(prefix) ...)]
palavras_filtradas(palavras) ==
    LET f[i \in 0..Len(palavras)] ==
            IF i = 0 THEN <<>>
            ELSE IF IsHint(palavras[i])
                 THEN Append(f[i - 1], Prefix(palavras[i], 10))
                 ELSE f[i - 1]
    IN f[Len(palavras)]

filter_info_adic(info_adic) ==
    IF info_adic = "" THEN ""
    ELSE join(" ", palavras_filtradas(split(info_adic)))

truncate_to_10_chars(text) == IF text = "" THEN "" ELSE Prefix(text, 10)

\* format_value of a str: a float when the text without "." and with "," as
\* "." parses, else that rewritten text
format_value(value_str) ==
    LET v == Replace(Replace(value_str, ".", ""), ",", ".") IN
    IF IsFloatLiteral(v) THEN [t |-> "float", c |-> FloatCents(v)]
    ELSE [t |-> "str", s |-> v]

\* check_none giving the text of None for a missing element
check_none_str_of_none(var) == IF var = <<>> THEN "None" ELSE var[1]

\* check_none of an element: <<>> is a missing element, <<text>> a present one
check_none(var) == IF var = <<>> THEN "" ELSE var[1]

\* int(x) raises in formatar_numero: x is a non-empty str that is no number
\* (a str that parses never leaves format_value as a str)
formatar_numero_raises(x) == x.t = "str" /\ x.s /= ""

\* formatar_numero without the zfill of a short digit string
formatar_numero_no_zfill(x) ==
    IF x.t = "str" THEN NaN
    ELSE LET x_str == IntStr(IntOfCents(x.c)) IN
         IF Len(x_str) > 2
         THEN Some(DropLast(x_str, 2) \o "." \o Suffix(x_str, 2))
         ELSE Some("0." \o x_str)

\* formatar_numero(x) when int(x) does not raise: None, or the digits of
\* int(x) with a "." before the last two
formatar_numero(x) ==
    IF x.t = "str" THEN NaN
    ELSE LET x_str == IntStr(IntOfCents(x.c)) IN
         IF Len(x_str) > 2
         THEN Some(DropLast(x_str, 2) \o "." \o Suffix(x_str, 2))
         ELSE Some("0." \o zfill(x_str, 2))

\* Series.astype(float) of the cells formatar_numero returned
astype_float_raises(cell) == ~IsNaN(cell) /\ ~IsFloatLiteral(cell[1])

astype_float(cell) == IF IsNaN(cell) THEN NaN ELSE Some(FloatCents(cell[1]))

\* pd.to_numeric(errors='coerce') of one text cell of an amount column
to_numeric_amount(text) == IF IsFloatLiteral(text) THEN Some(FloatCents(text)) ELSE NaN

RECURSIVE StripZeros(_)
StripZeros(d) == IF Len(d) > 1 /\ CharAt(d, 1) = "0" THEN StripZeros(Tail(d)) ELSE d

\* a conversion that leaves a text that is no number as it is
to_numeric_key_keeps_text(cell) ==
    IF IsNaN(cell) THEN NaN
    ELSE IF IsDigits(cell[1]) THEN Some(StripZeros(cell[1])) ELSE cell

\* pd.to_numeric(errors='coerce') of one cell of a key column: the number of
\* a digit string (as canonical digits), NaN for NaN and for any other text
to_numeric_key(cell) ==
    IF IsNaN(cell) THEN NaN
    ELSE IF IsDigits(cell[1]) THEN Some(StripZeros(cell[1])) ELSE NaN

\* dtype of a converted key column: int64 when no cell is NaN, else float64
numeric_dtype(cells) ==
    IF \E i \in 1..Len(cells) : IsNaN(cells[i]) THEN "float64" ELSE "int64"

\* Series.astype(str) of one cell of a numeric column of that dtype
astype_str(cell, dtype) ==
    IF IsNaN(cell) THEN "nan"
    ELSE IF dtype = "float64" THEN cell[1] \o ".0" ELSE cell[1]

\* Series.replace('.0', ''): replaces the cells equal to '.0', not substrings
series_replace(v, old, new) == IF v = old THEN new ELSE v

DaysIn(year, month) ==
    IF month = 2
    THEN (IF year % 4 = 0 /\ (year % 100 /= 0 \/ year % 400 = 0) THEN 29 ELSE 28)
    ELSE IF month \in {4, 6, 9, 11} THEN 30 ELSE 31

\* pd.to_datetime(errors='coerce').dt.strftime('%d/%m/%Y') of one text cell,
\* for the ISO dates yyyy-mm-dd of the model
format_date_to_brazilian(text) ==
    IF /\ Len(text) = 10
       /\ CharAt(text, 5) = "-" /\ CharAt(text, 8) = "-"
       /\ IsDigits(SubSeq(text, 1, 4))
       /\ IsDigits(SubSeq(text, 6, 7)) /\ NatOf(SubSeq(text, 6, 7)) \in 1..12
       /\ IsDigits(SubSeq(text, 9, 10))
       /\ NatOf(SubSeq(text, 9, 10)) \in 1..DaysIn(NatOf(SubSeq(text, 1, 4)), NatOf(SubSeq(text, 6, 7)))
    THEN Some(SubSeq(text, 9, 10) \o "/" \o SubSeq(text, 6, 7) \o "/" \o SubSeq(text, 1, 4))
    ELSE NaN

(***************************************************************************)
(* Input documents.  An XML element is <<>> when absent and <<text>> when  *)
(* present; a document that is not well-formed XML has wellFormed = FALSE. *)
(***************************************************************************)
El(text) == IF text = "" THEN <<>> ELSE <<text>>

Det(xProd, vProd, xPed, infAdProd) ==
    [xProd |-> El(xProd), qCom |-> El("1.00"), vProd |-> El(vProd),
     xPed |-> El(xPed), nItemPed |-> El(""), infAdProd |-> El(infAdProd)]

Cobr(dVenc, vOrig) == <<[dVenc |-> El(dVenc), vOrig |-> El(vOrig), vLiq |-> El(vOrig)]>>

NFe(Id, nNF, dhEmi, infCpl, vNF, emitCNPJ, destCNPJ, cobr, det) ==
    [wellFormed |-> TRUE, Id |-> El(Id), nNF |-> El(nNF), dhEmi |-> El(dhEmi),
     infCpl |-> El(infCpl), vNF |-> El(vNF),
     emit |-> <<[CNPJ |-> El(emitCNPJ)]>>,
     dest |-> IF destCNPJ = "" THEN <<>>
              ELSE <<[CNPJ |-> El(destCNPJ),
                      enderDest |-> <<[xLgr |-> El("Rua Um"), xMun |-> El("Recife")]>>]>>,
     cobr |-> cobr, det |-> det]

\* an invoice of two lines, with the PO hint in the additional information
DocA ==
    NFe("K1", "12", "2024-01-02T10:00:00-03:00", "texto 4501234567 outro texto", "123.45",
        "01234567000199", "1234567000199", Cobr("2024-02-01", "123.45"),
        <<Det("Parafuso", "100.00", "", ""), Det("Porca  m8", "23.45", "", "")>>)

\* the same invoice uploaded again, without the hint
DocA2 ==
    NFe("K1", "12", "2024-01-02T10:00:00-03:00", "", "123.45",
        "01234567000199", "1234567000199", Cobr("2024-02-01", "123.45"),
        <<Det("Parafuso", "100.00", "", ""), Det("Porca  m8", "23.45", "", "")>>)

\* another invoice for the same PO, with another total, no recipient and no
\* billing section
DocB ==
    NFe("K2", "13", "2024-01-03T09:00:00-03:00", "", "50.00", "01234567000199", "", <<>>,
        <<Det("Arruela", "50.00", "4501234567", "")>>)

\* an invoice whose total is not a number
DocC ==
    NFe("K3", "14", "2024-01-01T11:00:00-03:00", "", "abc",
        "01234567000199", "1234567000199", Cobr("2024-02-30", "10.00"),
        <<Det("Bucha", "10.00", "4504000001", "")>>)

\* an invoice without a total
DocD ==
    NFe("K4", "15", "2024-01-04T12:00:00-03:00", "", "", "01234567000199", "1234567000199",
        Cobr("sem data", ""),
        <<Det("Rebite", "5.00", "4503000001", "")>>)

\* the same invoice uploaded again, without the hint
DocD2 ==
    NFe("K4", "15", "2024-01-04T12:00:00-03:00", "", "", "01234567000199", "1234567000199",
        Cobr("sem data", ""),
        <<Det("Rebite", "5.00", "", "")>>)

\* a file that is not well-formed XML
DocE == [wellFormed |-> FALSE]

\* a document without det elements
DocF ==
    NFe("K5", "16", "2024-01-05T13:00:00-03:00", "4502000001", "10.00",
        "01234567000199", "1234567000199", <<>>, <<>>)

\* a small negative total
DocG ==
    NFe("K6", "17", "2024-01-06T14:00:00-03:00", "", "-0.05", "01234567000199",
        "1234567000199", <<>>, <<Det("Estorno", "-0.05", "4502000002", "")>>)

\* hints on the second and third line only, and different (the third token
\* is 14 characters); a total below 1
DocH ==
    NFe("K7", "18", "2024-01-07T08:00:00-03:00", "", "0.05", "01234567000199",
        "1234567000199", <<>>,
        <<Det("Anel", "0.01", "", ""), Det("Mola", "0.02", "4505000001", ""),
          Det("Pino", "0.02", "", "OC 45050000029999")>>)

\* two short hint tokens on the first line, a hint token that is not a
\* number on the second
DocI ==
    NFe("K8", "19", "2024-01-07T08:00:00-03:00", "", "7.00", "01234567000199",
        "1234567000199", <<>>,
        <<Det("Cabo", "3.00", "45031", "ref 45032 x"), Det("Fio", "4.00", "4502-77", "")>>)

\* the invoice of DocA uploaded again from another export: the same lines
\* with the descriptions in capitals and single spaces, and another PO hint
DocA3 ==
    NFe("K1", "12", "2024-01-02T10:00:00-03:00", "OC 4505999999", "123.45",
        "01234567000199", "1234567000199", Cobr("2024-02-01", "123.45"),
        <<Det("PARAFUSO", "100.00", "", ""), Det("PORCA M8", "23.45", "", "")>>)

\* a document without the Id attribute, without billing section, with a
\* recipient whose address has no street, and with an item without xPed,
\* nItemPed and infAdProd; invoice number 1
DocJ ==
    [NFe("", "1", "2024-01-03T15:30:00-03:00", "", "30.00", "01234567000199",
         "1234567000199", <<>>,
         <<Det("Filtro", "10.00", "", ""), Det("10W40 OLEO", "20.00", "", "")>>)
     EXCEPT !.dest = <<[CNPJ |-> El("1234567000199"),
                        enderDest |-> <<[xLgr |-> <<>>, xMun |-> El("Olinda")]>>]>>]

\* an invoice of another issuer with the number, the issue date and the first
\* description of DocA; its total is written without fractional digits and
\* its only hint token is not a number
DocK ==
    NFe("K9", "12", "2024-01-02T10:00:00-03:00", "", "8", "09876543000155",
        "1234567000199", <<>>,
        <<Det("Parafuso", "3.00", "", ""), Det("Chave", "5.00", "4502-77", "")>>)

\* invoice number 12 of a third issuer, its first item an oil; the document
\* has no Id attribute, a PO hint, and a total with one fractional digit
DocL ==
    NFe("", "12", "2024-01-09T16:00:00-03:00", "", "9.5", "05555555000144",
        "1234567000199", <<>>, <<Det("0W40 OLEO", "9.50", "4502000009", "")>>)

Docs ==
    {DocA, DocA2, DocA3, DocB, DocC, DocD, DocD2, DocE, DocF, DocG, DocH, DocI,
     DocJ, DocK, DocL}

\* the directory listings of at most MaxFiles files
Listings == UNION {[1..n -> Docs] : n \in 0..MaxFiles}

(***************************************************************************)
(* ReadXML.nfe_data: the lines of one well-formed document                 *)
(***************************************************************************)
Child(section, name) == IF section = <<>> THEN <<>> ELSE section[1][name]

\* section.find("ns:sub/ns:name"): None when the section has no such path
Path(section, sub, name) == Child(Child(section, sub), name)

\* nfe_data with itemNota counted from 0
nfe_data_item_from_zero(xml) ==
    [i \in 1..Len(xml.det) |->
        [chNfe |-> check_none(xml.Id),
         nNf |-> check_none(xml.nNF),
         dtEmi |-> check_none(xml.dhEmi),
         info_adic |-> check_none(xml.infCpl),
         dVenc |-> check_none(Child(xml.cobr, "dVenc")),
         emitCnpj |-> check_none(Child(xml.emit, "CNPJ")),
         destCnpj |-> check_none(Child(xml.dest, "CNPJ")),
         destLogr |-> check_none(Path(xml.dest, "enderDest", "xLgr")),
         destMunic |-> check_none(Path(xml.dest, "enderDest", "xMun")),
         vlTotalNf |-> format_value(check_none(xml.vNF)),
         itemNf |-> i - 1,
         qtd |-> check_none(xml.det[i].qCom),
         nomeMaterial |-> check_none(xml.det[i].xProd),
         vlTotProd |-> check_none(xml.det[i].vProd),
         xPed |-> check_none(xml.det[i].xPed),
         nItemPed |-> check_none(xml.det[i].nItemPed),
         infAdProd |-> check_none(xml.det[i].infAdProd),
         ValorOriginal |-> IF xml.cobr = <<>> THEN [t |-> "str", s |-> ""]
                           ELSE format_value(check_none(Child(xml.cobr, "vOrig"))),
         ValorPago |-> IF xml.cobr = <<>> THEN [t |-> "str", s |-> ""]
                       ELSE format_value(check_none(Child(xml.cobr, "vLiq")))]]

\* nfe_data giving a line of header fields for a document without det
nfe_data_header_line(xml) ==
    LET det == IF xml.det = <<>> THEN <<Det("", "", "", "")>> ELSE xml.det IN
        [i \in 1..Len(det) |->
            [chNfe |-> check_none(xml.Id),
             nNf |-> check_none(xml.nNF),
             dtEmi |-> check_none(xml.dhEmi),
             info_adic |-> check_none(xml.infCpl),
             dVenc |-> check_none(Child(xml.cobr, "dVenc")),
             emitCnpj |-> check_none(Child(xml.emit, "CNPJ")),
             destCnpj |-> check_none(Child(xml.dest, "CNPJ")),
             destLogr |-> check_none(Path(xml.dest, "enderDest", "xLgr")),
             destMunic |-> check_none(Path(xml.dest, "enderDest", "xMun")),
             vlTotalNf |-> format_value(check_none(xml.vNF)),
             itemNf |-> i,
             qtd |-> check_none(det[i].qCom),
             nomeMaterial |-> check_none(det[i].xProd),
             vlTotProd |-> check_none(det[i].vProd),
             xPed |-> check_none(det[i].xPed),
             nItemPed |-> check_none(det[i].nItemPed),
             infAdProd |-> check_none(det[i].infAdProd),
             ValorOriginal |-> IF xml.cobr = <<>> THEN [t |-> "str", s |-> ""]
                               ELSE format_value(check_none(Child(xml.cobr, "vOrig"))),
             ValorPago |-> IF xml.cobr = <<>> THEN [t |-> "str", s |-> ""]
                           ELSE format_value(check_none(Child(xml.cobr, "vLiq")))]]

nfe_data(xml) ==
    [i \in 1..Len(xml.det) |->
        [chNfe |-> check_none(xml.Id),
         nNf |-> check_none(xml.nNF),
         dtEmi |-> check_none(xml.dhEmi),
         info_adic |-> check_none(xml.infCpl),
         dVenc |-> check_none(Child(xml.cobr, "dVenc")),
         emitCnpj |-> check_none(Child(xml.emit, "CNPJ")),
         destCnpj |-> check_none(Child(xml.dest, "CNPJ")),
         destLogr |-> check_none(Path(xml.dest, "enderDest", "xLgr")),
         destMunic |-> check_none(Path(xml.dest, "enderDest", "xMun")),
         vlTotalNf |-> format_value(check_none(xml.vNF)),
         itemNf |-> i,
         qtd |-> check_none(xml.det[i].qCom),
         nomeMaterial |-> check_none(xml.det[i].xProd),
         vlTotProd |-> check_none(xml.det[i].vProd),
         xPed |-> check_none(xml.det[i].xPed),
         nItemPed |-> check_none(xml.det[i].nItemPed),
         infAdProd |-> check_none(xml.det[i].infAdProd),
         ValorOriginal |-> IF xml.cobr = <<>> THEN [t |-> "str", s |-> ""]
                           ELSE format_value(check_none(Child(xml.cobr, "vOrig"))),
         ValorPago |-> IF xml.cobr = <<>> THEN [t |-> "str", s |-> ""]
                       ELSE format_value(check_none(Child(xml.cobr, "vLiq")))]]

(***************************************************************************)
(* State                                                                   *)
(*   all_files  the directory listing (documents in os.listdir order)      *)
(*   fileIdx    position of the extraction loop in all_files               *)
(*   dados      lines extracted so far                                     *)
(*   df         the DataFrame (df_merged after the merge), a row sequence  *)
(*   dtypes     dtype of the converted key columns                         *)
(*   df_po      the rollup frame                                           *)
(*   pc         the statement group about to run; "done" after the final   *)
(*              sort, "aborted" after an uncaught exception                *)
(*   error      the uncaught exception, "" when none                       *)
(***************************************************************************)
Init ==
    /\ all_files \in Listings
    /\ fileIdx = 1
    /\ dados = <<>>
    /\ df = <<>>
    /\ dtypes = [po |-> "object", nNf |-> "object", emitCnpj |-> "object", destCnpj |-> "object"]
    /\ df_po = <<>>
    /\ pc = "extract"
    /\ error = ""

Raise(exception) ==
    /\ pc' = "aborted"
    /\ error' = exception
    /\ UNCHANGED <<all_files, fileIdx, dados, df, dtypes, df_po>>

\* for file in all_files: result = xml_reader.nfe_data(file); dados.extend(result)
\* ET.parse raises ParseError on a file that is not well-formed; nothing
\* catches it.
ExtractFile ==
    /\ pc = "extract"
    /\ fileIdx <= Len(all_files)
    /\ IF all_files[fileIdx].wellFormed
       THEN /\ dados' = dados \o nfe_data(all_files[fileIdx])
            /\ fileIdx' = fileIdx + 1
            /\ UNCHANGED <<all_files, df, dtypes, df_po, pc, error>>
       ELSE Raise("ParseError")

\* pd.DataFrame(dados, columns=[...]): the index is the position in dados
DataFrame(lines) == [i \in 1..Len(lines) |-> With(lines[i], "index", i - 1)]

\* df = pd.DataFrame(dados, columns=[...])
BuildDataFrame ==
    /\ pc = "extract"
    /\ fileIdx > Len(all_files)
    /\ df' = DataFrame(dados)
    /\ pc' = "convert_to_decimal"
    /\ UNCHANGED <<all_files, fileIdx, dados, dtypes, df_po, error>>

Step(next) ==
    /\ pc' = next
    /\ UNCHANGED <<all_files, fileIdx, dados, error>>

Column(rows, col) == [i \in 1..Len(rows) |-> rows[i][col]]

\* convert_to_decimal(df, ['Quantidade','vlUnProd','vlTotProd'], 2)
convert_to_decimal(rows) ==
    [i \in 1..Len(rows) |->
        With(With(rows[i], "qtd", to_numeric_amount(rows[i].qtd)),
             "vlTotProd", to_numeric_amount(rows[i].vlTotProd))]

\* df = convert_to_decimal(df, ['Quantidade','vlUnProd','vlTotProd'], 2)
ConvertToDecimal ==
    /\ pc = "convert_to_decimal"
    /\ df' = convert_to_decimal(df)
    /\ UNCHANGED <<dtypes, df_po>>
    /\ Step("formatar_numero")

colunas_para_formatar == <<"vlTotalNf", "ValorOriginal", "ValorPago">>

\* a cell of the columns to format on which the apply or the astype raises
FormatRaises(rows) ==
    \E i \in 1..Len(rows), k \in 1..Len(colunas_para_formatar) :
        LET x == rows[i][colunas_para_formatar[k]] IN
        \/ formatar_numero_raises(x)
        \/ astype_float_raises(formatar_numero(x))

FormatCell(x) == astype_float(formatar_numero(x))

\* the columns to format after the loop below, when nothing raises
format_columns(rows) ==
    [i \in 1..Len(rows) |->
        With(With(With(rows[i],
            "vlTotalNf", FormatCell(rows[i].vlTotalNf)),
            "ValorOriginal", FormatCell(rows[i].ValorOriginal)),
            "ValorPago", FormatCell(rows[i].ValorPago))]

\* for coluna in colunas_para_formatar:
\*     df[coluna] = df[coluna].apply(formatar_numero).astype(float)
\* int() and astype(float) raise ValueError; nothing catches it.
FormatarNumero ==
    /\ pc = "formatar_numero"
    /\ IF FormatRaises(df)
       THEN Raise("ValueError")
       ELSE /\ df' = format_columns(df)
            /\ UNCHANGED <<dtypes, df_po>>
            /\ Step("vlNf")

\* the sum of vlTotProd over the whole frame, without the groupby
GroupSum_whole_frame(rows, r) == SumCents(Column(rows, "vlTotProd"))

\* df.groupby('chaveNfe')['vlTotProd'].transform('sum') on one row
GroupSum(rows, r) ==
    SumCents(Column(SelectSeq(rows, LAMBDA q : q.chNfe = r.chNfe), "vlTotProd"))

\* the frame with the column vlNf
with_vlNf(rows) == [i \in 1..Len(rows) |-> With(rows[i], "vlNf", GroupSum(rows, rows[i]))]

\* df['vlNf'] = df.groupby('chaveNfe')['vlTotProd'].transform('sum')
VlNf ==
    /\ pc = "vlNf"
    /\ df' = with_vlNf(df)
    /\ UNCHANGED <<dtypes, df_po>>
    /\ Step("concat")

\* the dedup key of a line: NFe + Item Nota + Descrição
ConcatKey(nNf, itemNf, nomeMaterial) == nNf \o IntStr(itemNf) \o nomeMaterial

\* the frame with the column Concat and the cleaned description
with_Concat(rows) ==
    [i \in 1..Len(rows) |->
        With(With(rows[i],
            "Concat", ConcatKey(rows[i].nNf, rows[i].itemNf, rows[i].nomeMaterial)),
            "nomeMaterial", upper(clean_description(rows[i].nomeMaterial)))]

\* df['Concat'] = df['NFe'] + df['Item Nota'].astype(str) + df['Descrição']
\* df['Descrição'] = df['Descrição'].apply(clean_description).str.upper()
Concat ==
    /\ pc = "concat"
    /\ df' = with_Concat(df)
    /\ UNCHANGED <<dtypes, df_po>>
    /\ Step("po")

\* info_adic + " " + xPed + " " + nItemPed + " " + infAdProd
order_reference_raw(r) ==
    r.info_adic \o " " \o r.xPed \o " " \o r.nItemPed \o " " \o r.infAdProd

\* the hint candidate of a line
po_candidate(r) == truncate_to_10_chars(filter_info_adic(order_reference_raw(r)))

\* the frame with the column po holding the candidates
with_po(rows) == [i \in 1..Len(rows) |-> With(rows[i], "po", po_candidate(rows[i]))]

\* df['po'] = ...; df['po'] = df['po'].apply(filter_info_adic)
\* df['po'] = df['po'].apply(truncate_to_10_chars)
Po ==
    /\ pc = "po"
    /\ df' = with_po(df)
    /\ UNCHANGED <<dtypes, df_po>>
    /\ Step("first_po")

\* get_first_non_empty_po without the test "chave not in first_non_empty_po":
\* a later non-empty po overwrites the first
first_non_empty_po_overwritten(rows, chave) ==
    LET hits == {i \in 1..Len(rows) : rows[i].chNfe = chave /\ rows[i].po /= ""} IN
    IF hits = {} THEN NaN
    ELSE Some(rows[CHOOSE i \in hits : \A j \in hits : i >= j].po)

\* get_first_non_empty_po with an empty-string entry for a key without po
first_non_empty_po_default_empty(rows, chave) ==
    LET hits == {i \in 1..Len(rows) : rows[i].chNfe = chave /\ rows[i].po /= ""} IN
    IF hits = {} THEN Some("")
    ELSE Some(rows[CHOOSE i \in hits : \A j \in hits : i <= j].po)

\* get_first_non_empty_po(df).get(chave): <<po>> of the first row of that
\* chaveNfe whose po is not empty, <<>> (no entry) when there is none
first_non_empty_po(rows, chave) ==
    LET hits == {i \in 1..Len(rows) : rows[i].chNfe = chave /\ rows[i].po /= ""} IN
    IF hits = {} THEN NaN
    ELSE Some(rows[CHOOSE i \in hits : \A j \in hits : i <= j].po)

\* FirstPo without the map over chaveNfe: each line keeps its own candidate
FirstPo_not_propagated ==
    /\ pc = "first_po"
    /\ df' = [i \in 1..Len(df) |->
                With(df[i], "po", IF df[i].po = "" THEN NaN ELSE Some(df[i].po))]
    /\ UNCHANGED <<dtypes, df_po>>
    /\ pc' = "drop_duplicates"
    /\ UNCHANGED <<all_files, fileIdx, dados, error>>

\* df['chaveNfe'].map(get_first_non_empty_po(df))   (NaN for a key not in it)
map_first_po(rows) ==
    [i \in 1..Len(rows) |-> With(rows[i], "po", first_non_empty_po(rows, rows[i].chNfe))]

\* first_po_dict = get_first_non_empty_po(df)
\* df['po'] = df['chaveNfe'].map(first_po_dict)
FirstPo ==
    /\ pc = "first_po"
    /\ df' = map_first_po(df)
    /\ UNCHANGED <<dtypes, df_po>>
    /\ Step("drop_duplicates")

ConcatOf(r) == r.Concat

DropColumn(r, col) == [k \in (DOMAIN r) \ {col} |-> r[k]]

\* drop_duplicates(subset='Concat') and the drop of the column
drop_duplicates_Concat(rows) ==
    LET kept == KeepFirst(rows, [i \in 1..Len(rows) |-> ConcatOf(rows[i])])
    IN [i \in 1..Len(kept) |-> DropColumn(kept[i], "Concat")]

\* df.drop_duplicates(subset='Concat', inplace=True)
\* df = df.drop(columns=['Concat'], axis=1)
DropDuplicates ==
    /\ pc = "drop_duplicates"
    /\ df' = drop_duplicates_Concat(df)
    /\ UNCHANGED <<dtypes, df_po>>
    /\ Step("format_date")

\* format_date_to_brazilian(df, ['dVenc'])
format_dVenc(rows) ==
    [i \in 1..Len(rows) |-> With(rows[i], "dVenc", format_date_to_brazilian(rows[i].dVenc))]

\* df = format_date_to_brazilian(df, ['dVenc'])
FormatDate ==
    /\ pc = "format_date"
    /\ df' = format_dVenc(df)
    /\ UNCHANGED <<dtypes, df_po>>
    /\ Step("convert_columns_to_numeric")

\* convert_columns_to_numeric(df, ['po','NFe',...,'CNPJ Emitente',
\* 'CNPJ Destinatário',...])
convert_columns_to_numeric(rows) ==
    [i \in 1..Len(rows) |->
        With(With(With(With(rows[i],
            "po", to_numeric_key(rows[i].po)),
            "nNf", to_numeric_key(Some(rows[i].nNf))),
            "emitCnpj", to_numeric_key(Some(rows[i].emitCnpj))),
            "destCnpj", to_numeric_key(Some(rows[i].destCnpj)))]

\* the dtype of each converted key column, which follows from its cells
dtypes_of(rows) ==
    [c \in {"po", "nNf", "emitCnpj", "destCnpj"} |-> numeric_dtype(Column(rows, c))]

\* df = convert_columns_to_numeric(df, ['po','NFe',...,'CNPJ Emitente',
\* 'CNPJ Destinatário',...])
ConvertColumnsToNumeric ==
    /\ pc = "convert_columns_to_numeric"
    /\ df' = convert_columns_to_numeric(df)
    /\ dtypes' = dtypes_of(convert_columns_to_numeric(df))
    /\ UNCHANGED df_po
    /\ Step("sort_dtEmi")

\* df = df.sort_values(by='Data de Emissão', ascending=False)
SortDtEmi ==
    /\ pc = "sort_dtEmi"
    /\ df' = StableSort(df, "dtEmi")
    /\ UNCHANGED <<dtypes, df_po>>
    /\ Step("select")

colunas_renomeadas ==
    {"nNf", "dtEmi", "itemNf", "nomeMaterial", "qtd", "vlTotProd", "vlTotalNf",
     "po", "dVenc", "chNfe", "emitCnpj", "destCnpj", "destLogr", "destMunic", "index"}

\* df.rename(columns={...})[colunas_renomeadas]
select(rows) == [i \in 1..Len(rows) |-> Cols(rows[i], colunas_renomeadas)]

\* df = df.rename(columns={...}); df = df[colunas_renomeadas]
Select ==
    /\ pc = "select"
    /\ df' = select(df)
    /\ UNCHANGED <<dtypes, df_po>>
    /\ Step("cnpj")

\* Series.astype(str).replace('.0','') followed by .str.zfill(14)
cnpj_text(cell, dtype) == zfill(series_replace(astype_str(cell, dtype), ".0", ""), 14)

\* the frame with both tax id columns as padded text; dt holds their dtypes
pad_cnpj(rows, dt) ==
    [i \in 1..Len(rows) |->
        With(With(rows[i],
            "emitCnpj", cnpj_text(rows[i].emitCnpj, dt.emitCnpj)),
            "destCnpj", cnpj_text(rows[i].destCnpj, dt.destCnpj))]

\* the padding followed at once by the second drop_duplicates, before the
\* rollup and the join
Cnpj_then_second_dedup ==
    /\ pc = "cnpj"
    /\ df' = pad_cnpj(df, dtypes)
    /\ dtypes' = [dtypes EXCEPT !.emitCnpj = "object", !.destCnpj = "object"]
    /\ UNCHANGED df_po
    /\ Step("drop_duplicates_2")

\* df['emitCnpj'] = df['emitCnpj'].astype(str).replace('.0','')   (and destCnpj)
\* df['emitCnpj'] = df['emitCnpj'].str.zfill(14)                  (and destCnpj)
Cnpj ==
    /\ pc = "cnpj"
    /\ df' = pad_cnpj(df, dtypes)
    /\ dtypes' = [dtypes EXCEPT !.emitCnpj = "object", !.destCnpj = "object"]
    /\ UNCHANGED df_po
    /\ Step("df_po")

ChavePo(r) == <<r.chNfe, r.po>>

\* df_unique = df.drop_duplicates(subset=['chNfe', 'po'])
df_unique(rows) == KeepFirst(rows, [i \in 1..Len(rows) |-> ChavePo(rows[i])])

\* df_unique.groupby(['chNfe', 'po']).agg(vlRecPo=('vlTotalNf', 'sum'),
\*     qtdNfPo=('vlTotalNf', 'count')).reset_index()
\* Rows with a NaN key form no group; sum skips NaN and count counts the
\* cells that are not NaN.
groupby_agg(unique) ==
    LET keyed == SelectSeq(unique, LAMBDA r : ~IsNaN(r.po))
        all == [i \in 1..Len(keyed) |-> [chNfe |-> keyed[i].chNfe, po |-> keyed[i].po[1]]]
        keys == StableSort(KeepFirst(all, all), "group")
        members(k) == SelectSeq(keyed, LAMBDA r : r.chNfe = k.chNfe /\ r.po[1] = k.po)
        agg(k) == [chNfe |-> k.chNfe, po |-> k.po,
                   vlRecPo |-> SumCents(Column(members(k), "vlTotalNf")),
                   qtdNfPo |-> CountCells(Column(members(k), "vlTotalNf"))]
    IN [i \in 1..Len(keys) |-> agg(keys[i])]

\* df_unique = ...; df_po = ...
DfPo ==
    /\ pc = "df_po"
    /\ df_po' = groupby_agg(df_unique(df))
    /\ UNCHANGED <<df, dtypes>>
    /\ Step("merge")

\* a join in which a null po matches every group
merge_on_null_matches(left, right) == IsNaN(left.po) \/ left.po[1] = right.po

\* the column on which df and df_po are joined
merge_on(left, right) == ~IsNaN(left.po) /\ left.po[1] = right.po

\* the rows one left row gives in df.merge(df_po, on='po', how='left'): one
\* per matching row of df_po, in df_po order, or one with NaN rollups; the
\* left chNfe is the one kept (chNfe_x renamed to chNfe)
merge_row(left, right) ==
    LET hits == SelectSeq(right, LAMBDA g : merge_on(left, g)) IN
    IF hits = <<>>
    THEN <<With(With(left, "vlRecPo", NaN), "qtdNfPo", NaN)>>
    ELSE [k \in 1..Len(hits) |->
            With(With(left, "vlRecPo", Some(hits[k].vlRecPo)),
                 "qtdNfPo", Some(hits[k].qtdNfPo))]

RECURSIVE Flatten(_)
Flatten(seqs) == IF seqs = <<>> THEN <<>> ELSE Head(seqs) \o Flatten(Tail(seqs))

Reindex(rows) == [i \in 1..Len(rows) |-> With(rows[i], "index", i - 1)]

\* df.merge(df_po, on='po', how='left')
merge(left, right) == Reindex(Flatten([i \in 1..Len(left) |-> merge_row(left[i], right)]))

\* df_merged = df.merge(df_po, on='po', how='left'), then the rename of
\* chNfe_x and the column selection
Merge ==
    /\ pc = "merge"
    /\ df' = merge(df, df_po)
    /\ UNCHANGED <<dtypes, df_po>>
    /\ Step("drop_duplicates_2")

\* df_merged['nNf'].astype(str) + df_merged['itemNf'].astype(str)
\*     + df_merged['nomeMaterial']
Concat2(r, dtype) == astype_str(r.nNf, dtype) \o IntStr(r.itemNf) \o r.nomeMaterial

\* drop_duplicates(subset='Concat') on the key of the merged frame; dtype is
\* the dtype of its column nNf
drop_duplicates_2(rows, dtype) ==
    KeepFirst(rows, [i \in 1..Len(rows) |-> Concat2(rows[i], dtype)])

\* the final pass without its drop_duplicates
DropDuplicates2_skipped ==
    /\ pc = "drop_duplicates_2"
    /\ df' = df
    /\ UNCHANGED <<dtypes, df_po>>
    /\ pc' = "sort"
    /\ UNCHANGED <<all_files, fileIdx, dados, error>>

\* df_merged['Concat'] = ...; df_merged.drop_duplicates(subset='Concat',
\* inplace=True); df_merged = df_merged.drop(columns=['Concat'], axis=1)
DropDuplicates2 ==
    /\ pc = "drop_duplicates_2"
    /\ df' = drop_duplicates_2(df, dtypes.nNf)
    /\ UNCHANGED <<dtypes, df_po>>
    /\ Step("sort")

\* df = df_merged; df = df.sort_values(by=['dtEmi','nNf','itemNf'], ...)
Sort ==
    /\ pc = "sort"
    /\ df' = StableSort(df, "final")
    /\ UNCHANGED <<dtypes, df_po>>
    /\ Step("done")

Next ==
    \/ ExtractFile
    \/ BuildDataFrame
    \/ ConvertToDecimal
    \/ FormatarNumero
    \/ VlNf
    \/ Concat
    \/ Po
    \/ FirstPo
    \/ DropDuplicates
    \/ FormatDate
    \/ ConvertColumnsToNumeric
    \/ SortDtEmi
    \/ Select
    \/ Cnpj
    \/ DfPo
    \/ Merge
    \/ DropDuplicates2
    \/ Sort

Spec == Init /\ [][Next]_vars

(***************************************************************************)
(* The whole script as a function of the directory listing                 *)
(***************************************************************************)
\* dados after the loop over all_files
dados_of(listing) == Flatten([k \in 1..Len(listing) |-> nfe_data(listing[k])])

\* how the script ends on a listing, and the frame it ends with
Run(listing) ==
    IF \E k \in 1..Len(listing) : ~listing[k].wellFormed
    THEN [pc |-> "aborted", df |-> <<>>]
    ELSE LET d0 == convert_to_decimal(DataFrame(dados_of(listing)))
         IN IF FormatRaises(d0)
            THEN [pc |-> "aborted", df |-> <<>>]
            ELSE LET d1 == drop_duplicates_Concat(map_first_po(with_po(
                               with_Concat(with_vlNf(format_columns(d0))))))
                     d2 == convert_columns_to_numeric(format_dVenc(d1))
                     dt == dtypes_of(d2)
                     d3 == pad_cnpj(select(StableSort(d2, "dtEmi")), dt)
                     d4 == merge(d3, groupby_agg(df_unique(d3)))
                 IN [pc |-> "done",
                     df |-> StableSort(drop_duplicates_2(d4, dt.nNf), "final")]

(***************************************************************************)
(* Properties                                                              *)
(***************************************************************************)
\* the statement groups after the resolver (FirstPo) has run
AfterResolver ==
    {"drop_duplicates", "format_date", "convert_columns_to_numeric", "sort_dtEmi",
     "select", "cnpj", "df_po", "merge", "drop_duplicates_2", "sort", "done"}

\* after the resolver and before the numeric coercion: po is still text
PoIsText == {"drop_duplicates", "format_date", "convert_columns_to_numeric"}

\* the hint candidate of the k-th extracted line
Candidate(k) == po_candidate(dados[k])

\* the extracted lines of invoice key chave that have a candidate
LinesWithCandidate(chave) ==
    {k \in 1..Len(dados) : dados[k].chNfe = chave /\ Candidate(k) /= ""}

\* C1: once the resolver has run, any two rows of the frame with the same
\* invoice key have the same po, in every later step and in the final output.
C1_PoPropagation ==
    pc \in AfterResolver =>
        \A i, j \in 1..Len(df) : df[i].chNfe = df[j].chNfe => df[i].po = df[j].po

\* The final output holds two rows of one invoice with a po, and the lines of
\* that invoice had different candidates.
C1_Witness ==
    /\ pc = "done"
    /\ \E i, j \in 1..Len(df) :
        /\ i /= j
        /\ df[i].chNfe = df[j].chNfe
        /\ ~IsNaN(df[i].po)
        /\ \E k, m \in 1..Len(dados) :
            /\ dados[k].chNfe = df[i].chNfe /\ dados[m].chNfe = df[i].chNfe
            /\ Candidate(k) /= Candidate(m)

\* the invoice keys among the rows of a group, and the total of an invoice
InvoicesOf(rows) == {rows[i].chNfe : i \in 1..Len(rows)}

\* invoice_total_value of invoice chave in the final output (0 when null)
InvoiceTotal(chave) ==
    LET i == CHOOSE k \in 1..Len(df) : df[k].chNfe = chave IN
    IF IsNaN(df[i].vlTotalNf) THEN 0 ELSE df[i].vlTotalNf[1]

RECURSIVE SumTotals(_)
SumTotals(S) ==
    IF S = {} THEN 0
    ELSE LET x == CHOOSE y \in S : TRUE IN InvoiceTotal(x) + SumTotals(S \ {x})

\* C2: in the final output, on every line with a po, po_total_value is the
\* sum of invoice_total_value over the distinct invoices of the line's
\* (invoice_key, po) group and po_line_count is the number of those invoices.
C2_RollupCorrect ==
    pc = "done" =>
        \A i \in 1..Len(df) :
            ~IsNaN(df[i].po) =>
                LET group == SelectSeq(df, LAMBDA r : r.chNfe = df[i].chNfe /\ r.po = df[i].po)
                    invoices == InvoicesOf(group)
                IN /\ df[i].vlRecPo = Some(SumTotals(invoices))
                   /\ df[i].qtdNfPo = Some(Cardinality(invoices))

\* C3: in the final output, the rollup found on a line with a po is the row
\* of df_po computed for that line's own (invoice_key, po) group.
C3_RollupOfOwnGroup ==
    pc = "done" =>
        \A i \in 1..Len(df) :
            ~IsNaN(df[i].po) =>
                \E g \in 1..Len(df_po) :
                    /\ df_po[g].chNfe = df[i].chNfe
                    /\ df_po[g].po = df[i].po[1]
                    /\ df[i].vlRecPo = Some(df_po[g].vlRecPo)
                    /\ df[i].qtdNfPo = Some(df_po[g].qtdNfPo)

\* the lines of the k-th file are among the extracted lines
Extracted(k) ==
    \A n \in 1..Len(nfe_data(all_files[k])) :
        \E i \in 1..Len(dados) : dados[i] = nfe_data(all_files[k])[n]

\* C4: a file that is not well-formed XML does not abort the run, and once
\* the extraction loop is over every well-formed file of the listing has been
\* extracted.
C4_FailureIsolation ==
    /\ error /= "ParseError"
    /\ pc /= "extract" => \A k \in 1..Len(all_files) : all_files[k].wellFormed => Extracted(k)

\* C5: for a listing of well-formed documents the run never aborts on a
\* field, and a total or billing value that is no number is null after the
\* fixed-point normalization.
C5_BadFieldNeverAborts ==
    /\ (\A k \in 1..Len(all_files) : all_files[k].wellFormed) => pc /= "aborted"
    /\ pc = "vlNf" =>
        \A i \in 1..Len(df) : \A k \in 1..Len(colunas_para_formatar) :
            dados[df[i].index + 1][colunas_para_formatar[k]].t = "str"
                => IsNaN(df[i][colunas_para_formatar[k]])

\* the item lines of a document, without the hint fields
ItemLines(xml) == [n \in 1..Len(xml.det) |-> [xProd |-> xml.det[n].xProd, vProd |-> xml.det[n].vProd]]

\* the candidates of the lines of a document
DocCandidates(xml) == {po_candidate(nfe_data(xml)[n]) : n \in 1..Len(xml.det)} \ {""}

\* the listing is two uploads of one invoice, exactly one of them with a hint
DuplicateUpload ==
    /\ Len(all_files) = 2
    /\ all_files[1].wellFormed /\ all_files[2].wellFormed
    /\ all_files[1].Id = all_files[2].Id
    /\ all_files[1].nNF = all_files[2].nNF
    /\ ItemLines(all_files[1]) = ItemLines(all_files[2])
    /\ Len(all_files[1].det) >= 1
    /\ (DocCandidates(all_files[1]) = {}) /= (DocCandidates(all_files[2]) = {})

\* the first candidate among the extracted lines
UploadedHint == Candidate(CHOOSE k \in 1..Len(dados) : Candidate(k) /= "" /\ \A m \in 1..(k - 1) : Candidate(m) = "")

\* C6: two uploads of one invoice of N lines, one of them with a hint, give
\* 2N extracted lines, one po on all of them after the resolver, and a final
\* output of N rows that all carry that po and po_line_count 1; the run ends.
C6_DuplicateUpload ==
    DuplicateUpload =>
        LET N == Len(all_files[1].det) IN
        /\ pc /= "aborted"
        /\ pc \notin {"extract"} => Len(dados) = 2 * N
        /\ pc = "drop_duplicates" =>
            /\ Len(df) = 2 * N
            /\ \A i \in 1..Len(df) : df[i].po = Some(UploadedHint)
        /\ pc = "done" =>
            /\ Len(df) = N
            /\ \A i \in 1..Len(df) : df[i].po = Some(UploadedHint) /\ df[i].qtdNfPo = Some(1)

\* C7: while po is text, the po of every row of an invoice with at least one
\* candidate is the candidate of the first extracted line of that invoice
\* that has one.
C7_FirstNonEmpty ==
    pc \in PoIsText =>
        \A i \in 1..Len(df) :
            LET hits == LinesWithCandidate(df[i].chNfe) IN
            hits /= {} =>
                \E k \in hits : (\A m \in hits : k <= m) /\ df[i].po = Some(Candidate(k))

\* The resolver has run on an invoice whose lines have two different
\* candidates, the first of them not on the first line.
C7_Witness ==
    /\ pc = "drop_duplicates"
    /\ \E k, m \in 1..Len(dados) :
        /\ k < m
        /\ dados[k].chNfe = dados[m].chNfe
        /\ Candidate(k) /= "" /\ Candidate(m) /= "" /\ Candidate(k) /= Candidate(m)
        /\ \E n \in 1..(k - 1) : dados[n].chNfe = dados[k].chNfe /\ Candidate(n) = ""
        /\ \A i \in 1..Len(df) : df[i].chNfe = dados[k].chNfe => df[i].po /= Some(Candidate(m))

HintPrefixes == {"4501", "4502", "4503", "4504", "4505"}

\* the positions of the hint tokens among the tokens of a text
HintTokens(toks) == {k \in 1..Len(toks) : \E p \in HintPrefixes : startswith(toks[k], p)}

\* C8: when the candidates have been computed, a line without a token that
\* starts with 4501..4505 has the empty candidate, a line with such a token
\* has a non-empty one, and a line with exactly one such token T has T cut to
\* its first 10 characters.
C8_HintExtraction ==
    pc = "first_po" =>
        \A i \in 1..Len(df) :
            LET toks == split(order_reference_raw(df[i]))
                H == HintTokens(toks)
            IN /\ H = {} <=> df[i].po = ""
               /\ Cardinality(H) = 1 => \A k \in H : df[i].po = Prefix(toks[k], 10)

\* The candidates have been computed for a line without a hint token, a line
\* whose single hint token is longer than 10 characters, and a line whose
\* hint follows other words.
C8_Witness ==
    /\ pc = "first_po"
    /\ \E i \in 1..Len(df) : HintTokens(split(order_reference_raw(df[i]))) = {}
    /\ \E i \in 1..Len(df) :
        LET toks == split(order_reference_raw(df[i])) IN
        /\ Cardinality(HintTokens(toks)) = 1
        /\ \E k \in HintTokens(toks) : Len(toks[k]) > 10 /\ k > 1
    /\ \E i \in 1..Len(df) : df[i].po = "4501234567" /\ df[i].info_adic = "texto 4501234567 outro texto"

\* the tax id columns have been padded and the index still names the line
AfterCnpj == {"df_po", "merge"}

PaddedTaxId(text, cell) ==
    IsDigits(text) => Len(cell) = 14 /\ IsDigits(cell) /\ cell = zfill(text, 14)

\* C9: after the padding, every issuer and recipient tax id that was a digit
\* string in the source is that string left-padded with zeros to 14 digits.
C9_TaxIdPadding ==
    pc \in AfterCnpj =>
        \A i \in 1..Len(df) :
            /\ PaddedTaxId(dados[df[i].index + 1].emitCnpj, df[i].emitCnpj)
            /\ PaddedTaxId(dados[df[i].index + 1].destCnpj, df[i].destCnpj)

\* the digit string of a float that is a whole number of at least 0, given in
\* hundredths
IsWhole(x) == x.t = "float" /\ x.c >= 0 /\ x.c % 100 = 0

\* C10: after the fixed-point normalization, a total or billing value whose
\* digit string is d has become d / 100 (the decimal point two characters
\* from the right, short d zero-padded), and an empty value has become null.
C10_FixedPoint ==
    pc = "vlNf" =>
        \A i \in 1..Len(df) : \A k \in 1..Len(colunas_para_formatar) :
            LET x == dados[df[i].index + 1][colunas_para_formatar[k]]
                out == df[i][colunas_para_formatar[k]]
            IN /\ IsWhole(x) => out = Some(x.c \div 100)
               /\ (x.t = "str" /\ x.s = "") => IsNaN(out)

\* The normalization has run on a digit string of one character, on one of
\* more than two characters, and on an empty value.
C10_Witness ==
    /\ pc = "vlNf"
    /\ \E i \in 1..Len(df) :
        LET x == dados[df[i].index + 1].vlTotalNf IN IsWhole(x) /\ x.c \div 100 < 10
    /\ \E i \in 1..Len(df) :
        LET x == dados[df[i].index + 1].vlTotalNf IN IsWhole(x) /\ x.c \div 100 > 99
    /\ \E i \in 1..Len(df) :
        LET x == dados[df[i].index + 1].ValorOriginal IN x.t = "str" /\ x.s = "" /\ IsNaN(df[i].ValorOriginal)

\* the line dedup key of each row of the frame, built from the row's invoice
\* number, item index and description as the first pass builds it
FirstPassKeys(rows) ==
    [i \in 1..Len(rows) |-> ConcatKey(rows[i].nNf, rows[i].itemNf, rows[i].nomeMaterial)]

\* ... and as the final pass builds it
FinalPassKeys(rows) == [i \in 1..Len(rows) |-> Concat2(rows[i], dtypes.nNf)]

\* C11: the line dedup (build the key invoice number + item index +
\* description, keep the first row of each key) removes no row from its own
\* output, after the first pass and after the final pass.
C11_DedupIdempotent ==
    /\ pc = "format_date" => KeepFirst(df, FirstPassKeys(df)) = df
    /\ pc = "sort" => KeepFirst(df, FinalPassKeys(df)) = df

RECURSIVE LinesBefore(_)
\* the number of lines extracted from the files before the k-th
LinesBefore(k) == IF k = 1 THEN 0 ELSE LinesBefore(k - 1) + Len(all_files[k - 1].det)

\* the line extracted for the n-th det of the k-th file (k < fileIdx)
Line(k, n) == dados[LinesBefore(k) + n]

\* the value a float-or-text field has for the empty string
EmptyText == [t |-> "str", s |-> ""]

\* the fields of line r that come from elements missing in document x are
\* the empty string
AbsentAreEmpty(x, n, r) ==
    /\ x.Id = <<>> => r.chNfe = ""
    /\ x.nNF = <<>> => r.nNf = ""
    /\ x.dhEmi = <<>> => r.dtEmi = ""
    /\ x.infCpl = <<>> => r.info_adic = ""
    /\ x.vNF = <<>> => r.vlTotalNf = EmptyText
    /\ x.dest = <<>> => r.destCnpj = "" /\ r.destLogr = "" /\ r.destMunic = ""
    /\ x.dest /= <<>> =>
        /\ x.dest[1].CNPJ = <<>> => r.destCnpj = ""
        /\ x.dest[1].enderDest = <<>> => r.destLogr = "" /\ r.destMunic = ""
        /\ x.dest[1].enderDest /= <<>> =>
            /\ x.dest[1].enderDest[1].xLgr = <<>> => r.destLogr = ""
            /\ x.dest[1].enderDest[1].xMun = <<>> => r.destMunic = ""
    /\ x.cobr = <<>> =>
        r.dVenc = "" /\ r.ValorOriginal = EmptyText /\ r.ValorPago = EmptyText
    /\ x.cobr /= <<>> =>
        /\ x.cobr[1].dVenc = <<>> => r.dVenc = ""
        /\ x.cobr[1].vOrig = <<>> => r.ValorOriginal = EmptyText
        /\ x.cobr[1].vLiq = <<>> => r.ValorPago = EmptyText
    /\ x.det[n].xProd = <<>> => r.nomeMaterial = ""
    /\ x.det[n].xPed = <<>> => r.xPed = ""
    /\ x.det[n].nItemPed = <<>> => r.nItemPed = ""
    /\ x.det[n].infAdProd = <<>> => r.infAdProd = ""

\* C12: the extraction of a well-formed document raises no error, and on
\* every line it produces each field whose element (or whole section, or Id
\* attribute) is missing from the document is the empty string.
C12_MissingAbsorbed ==
    /\ error = "ParseError" => ~all_files[fileIdx].wellFormed
    /\ \A k \in 1..(fileIdx - 1) :
        \A n \in 1..Len(all_files[k].det) : AbsentAreEmpty(all_files[k], n, Line(k, n))

\* Both files of the listing have been extracted: one without Id attribute,
\* without billing section and with an address without street, the other
\* without recipient.
C12_Witness ==
    /\ Len(all_files) = 2 /\ fileIdx = 3
    /\ all_files[1].Id = <<>> /\ all_files[1].cobr = <<>>
    /\ all_files[1].dest /= <<>> /\ all_files[1].dest[1].enderDest[1].xLgr = <<>>
    /\ all_files[2].dest = <<>>
    /\ Len(dados) = 3

\* C13 as stated: once the resolver has run, po is the empty string on every
\* line of an invoice none of whose lines has a candidate.
C13_UnresolvedIsEmptyString ==
    pc = "drop_duplicates" =>
        \A i \in 1..Len(df) : LinesWithCandidate(df[i].chNfe) = {} => df[i].po = Some("")

\* C13: the resolver raises no error, and from the resolver on po is null
\* (NaN, not the empty string) on every line of an invoice none of whose
\* lines has a candidate.
C13_UnresolvedIsNull ==
    /\ pc = "drop_duplicates" => error = ""
    /\ pc \in AfterResolver =>
        \A i \in 1..Len(df) : LinesWithCandidate(df[i].chNfe) = {} => df[i].po = NaN

\* The final output holds the lines of an invoice without any candidate
\* next to the lines of an invoice with one.
C13_Witness ==
    /\ pc = "done"
    /\ \E i, j \in 1..Len(df) :
        /\ LinesWithCandidate(df[i].chNfe) = {} /\ IsNaN(df[i].po)
        /\ LinesWithCandidate(df[j].chNfe) /= {} /\ ~IsNaN(df[j].po)

\* the header, issuer, recipient and billing fields of a line
HeaderOf(r) ==
    [chNfe |-> r.chNfe, nNf |-> r.nNf, dtEmi |-> r.dtEmi, info_adic |-> r.info_adic,
     vlTotalNf |-> r.vlTotalNf, emitCnpj |-> r.emitCnpj, destCnpj |-> r.destCnpj,
     destLogr |-> r.destLogr, destMunic |-> r.destMunic, dVenc |-> r.dVenc,
     ValorOriginal |-> r.ValorOriginal, ValorPago |-> r.ValorPago]

RECURSIVE LinesUpTo(_)
\* the number of det elements in the first k files of the listing
LinesUpTo(k) == IF k = 0 THEN 0 ELSE LinesUpTo(k - 1) + Len(all_files[k].det)

\* C14: the files extracted so far have given one line per det element, in
\* document order: the n-th line of a document has item index n and the
\* description of the n-th det, and all lines of a document carry the same
\* header, issuer, recipient and billing values.
C14_OneLinePerItem ==
    /\ Len(dados) = LinesUpTo(fileIdx - 1)
    /\ \A k \in 1..(fileIdx - 1) :
        \A n \in 1..Len(all_files[k].det) :
            /\ Line(k, n).itemNf = n
            /\ Line(k, n).nomeMaterial = check_none(all_files[k].det[n].xProd)
            /\ HeaderOf(Line(k, n)) = HeaderOf(Line(k, 1))

\* A document of three items has been extracted behind another document.
C14_Witness ==
    /\ fileIdx = 3
    /\ Len(all_files[1].det) >= 1
    /\ Len(all_files[2].det) = 3
    /\ Line(2, 3).itemNf = 3 /\ Line(2, 3).nomeMaterial = "Pino"

\* the extraction loop is about to read a well-formed file without det
AtFileWithoutItems ==
    /\ pc = "extract" /\ fileIdx <= Len(all_files)
    /\ all_files[fileIdx].wellFormed /\ all_files[fileIdx].det = <<>>

\* C15: extracting a well-formed document without det elements adds no line
\* and raises no error (the loop goes on to the next file), and no row of the
\* frame ever carries the key of such a document.
C15_NoItemsNoLines ==
    [][/\ AtFileWithoutItems =>
            dados' = dados /\ fileIdx' = fileIdx + 1 /\ pc' = "extract" /\ error' = ""
       /\ \A i \in 1..Len(df') : \A k \in 1..Len(all_files) :
            all_files[k].wellFormed /\ all_files[k].det = <<>>
                => Some(df'[i].chNfe) /= all_files[k].Id]_vars

\* The run is over for a listing of a document without det and a document
\* with lines, whose rows are in the output.
C15_Witness ==
    /\ pc = "done"
    /\ Len(all_files) = 2
    /\ all_files[1].det = <<>> /\ all_files[1].Id /= <<>>
    /\ Len(df) = Len(all_files[2].det) /\ Len(df) > 0

\* year, month, day, hour, minute and second of an issue date-time
\* yyyy-mm-ddThh:mm:ss-03:00
Stamp(text) ==
    <<NatOf(SubSeq(text, 1, 4)), NatOf(SubSeq(text, 6, 7)), NatOf(SubSeq(text, 9, 10)),
      NatOf(SubSeq(text, 12, 13)), NatOf(SubSeq(text, 15, 16)), NatOf(SubSeq(text, 18, 19))>>

\* the date-time a is before the date-time b
Earlier(a, b) ==
    \E k \in 1..6 : a[k] < b[k] /\ \A m \in 1..(k - 1) : a[m] = b[m]

HasSpace(text) == \E k \in 1..Len(text) : CharAt(text, k) = " "

\* text is a hint token of the k-th extracted line, cut to 10 characters
IsCutHintToken(text, k) ==
    LET toks == split(order_reference_raw(dados[k])) IN
    \E t \in HintTokens(toks) : text = Prefix(toks[t], 10)

\* C17: while po is text, the po of a row is null or one hint token of a
\* line of its invoice cut to at most 10 characters; it holds no whitespace
\* and no fragment of a second token.
C17_SingleToken ==
    pc \in PoIsText =>
        \A i \in 1..Len(df) :
            ~IsNaN(df[i].po) =>
                /\ ~HasSpace(df[i].po[1])
                /\ Len(df[i].po[1]) <= 10
                /\ \E k \in 1..Len(dados) :
                    dados[k].chNfe = df[i].chNfe /\ IsCutHintToken(df[i].po[1], k)

\* invoice number, item index and description (as extracted) of the line a
\* row of the frame comes from
Triple(r) == <<r.nNf, r.itemNf, dados[r.index + 1].nomeMaterial>>

\* C18: when the first dedup is about to run, two rows whose (invoice
\* number, item index, description) triples differ have different keys, and
\* after it every triple extracted is still in the frame.
C18_KeyInjective ==
    /\ pc = "drop_duplicates" =>
        \A i, j \in 1..Len(df) : Triple(df[i]) /= Triple(df[j]) => df[i].Concat /= df[j].Concat
    /\ pc = "format_date" =>
        \A k \in 1..Len(dados) :
            \E i \in 1..Len(df) :
                Triple(df[i]) = <<dados[k].nNf, dados[k].itemNf, dados[k].nomeMaterial>>

\* the k-th extracted line is no longer in the frame
Dropped(k) == \A i \in 1..Len(df) : df[i].index /= k - 1

\* C19: after the first dedup, every extracted line that was dropped has the
\* invoice key of the kept row with its invoice number, item index and
\* description: only copies of a line of the same invoice are removed.
C19_DropsOnlySameInvoice ==
    pc = "format_date" =>
        \A k \in 1..Len(dados) :
            Dropped(k) =>
                \A i \in 1..Len(df) :
                    Triple(df[i]) = <<dados[k].nNf, dados[k].itemNf, dados[k].nomeMaterial>>
                        => df[i].chNfe = dados[k].chNfe

\* the statement groups at which the frame has the column vlNf
HasVlNf ==
    {"concat", "po", "first_po", "drop_duplicates", "format_date",
     "convert_columns_to_numeric", "sort_dtEmi", "select"}

\* total_value (hundredths, 0 when null) of item n of invoice chave: that of
\* the first extracted line with that key and item index
ItemValue(chave, n) ==
    LET k == CHOOSE m \in 1..Len(dados) :
                /\ dados[m].chNfe = chave /\ dados[m].itemNf = n
                /\ \A q \in 1..(m - 1) : ~(dados[q].chNfe = chave /\ dados[q].itemNf = n)
        v == to_numeric_amount(dados[k].vlTotProd)
    IN IF IsNaN(v) THEN 0 ELSE v[1]

RECURSIVE SumItems(_, _)
SumItems(chave, items) ==
    IF items = {} THEN 0
    ELSE LET n == CHOOSE x \in items : TRUE
         IN ItemValue(chave, n) + SumItems(chave, items \ {n})

\* the sum of total_value over the distinct lines of invoice chave
DistinctLinesTotal(chave) ==
    SumItems(chave, {dados[m].itemNf : m \in {q \in 1..Len(dados) : dados[q].chNfe = chave}})

\* C20: invoice_total_computed of every row is the sum of total_value over
\* the distinct lines of the row's invoice, however many times the document
\* of the invoice is in the batch.
C20_TotalIgnoresCopies ==
    pc \in HasVlNf => \A i \in 1..Len(df) : df[i].vlNf = DistinctLinesTotal(df[i].chNfe)

\* total_value (hundredths, 0 when null) of the m-th extracted line
LineValue(m) ==
    LET v == to_numeric_amount(dados[m].vlTotProd) IN IF IsNaN(v) THEN 0 ELSE v[1]

RECURSIVE SumLines(_, _)
\* the sum of total_value over the first m extracted lines of invoice chave
SumLines(chave, m) ==
    IF m = 0 THEN 0
    ELSE SumLines(chave, m - 1) + (IF dados[m].chNfe = chave THEN LineValue(m) ELSE 0)

\* C21: while the frame has the column, invoice_total_computed of every row
\* is the sum of total_value over the extracted lines with the row's
\* invoice key; the lines of other invoices contribute nothing.
C21_PerInvoiceTotal ==
    pc \in HasVlNf =>
        \A i \in 1..Len(df) : df[i].vlNf = SumLines(df[i].chNfe, Len(dados))

\* The total has been computed for a batch of two invoices of several lines
\* with different totals.
C21_Witness ==
    /\ pc = "concat"
    /\ \E i, j \in 1..Len(df) :
        /\ df[i].chNfe /= df[j].chNfe
        /\ df[i].vlNf /= df[j].vlNf
        /\ df[i].vlNf > LineValue(df[i].index + 1)
        /\ df[j].vlNf > 0

\* the file the m-th extracted line comes from (every file is well-formed)
FileOf(m) == CHOOSE k \in 1..Len(all_files) : LinesUpTo(k - 1) < m /\ m <= LinesUpTo(k)

\* the statement groups after the fixed-point normalization at which the
\* index of a row still names its extracted line
AfterFormat ==
    {"vlNf", "concat", "po", "first_po", "drop_duplicates", "format_date",
     "convert_columns_to_numeric", "sort_dtEmi", "select", "cnpj", "df_po", "merge"}

\* C22: after the normalization, invoice_total_value of every row is the
\* numeric value of the vNF text of the row's source document, whenever that
\* text is a decimal number (with two, one or no fractional digits).
C22_TotalIsTextValue ==
    pc \in AfterFormat =>
        \A i \in 1..Len(df) :
            LET vNF == all_files[FileOf(df[i].index + 1)].vNF IN
            (vNF /= <<>> /\ IsFloatLiteral(vNF[1])) =>
                df[i].vlTotalNf = Some(FloatCents(vNF[1]))

\* the dedup keys of the extracted lines, as the first pass builds them
ExtractedKeys ==
    {ConcatKey(dados[k].nNf, dados[k].itemNf, dados[k].nomeMaterial) : k \in 1..Len(dados)}

\* C23: the final output has as many rows as the first line dedup left (one
\* per dedup key of the extracted lines): the join on the rollup and the
\* second dedup neither multiply nor remove a line.
C23_RowConservation ==
    pc = "done" => Len(df) = Cardinality(ExtractedKeys)

\* invoice number, item index and description of an output row
OutTriple(r) == <<r.nNf, r.itemNf, r.nomeMaterial>>

\* C24: when the final drop-duplicates is about to run the rows carry the
\* rollup columns of the join, and from then on (before the final sort and
\* in the final output) no two rows have the same invoice number, item index
\* and description.
C24_FinalDedup ==
    /\ pc = "drop_duplicates_2" => \A i \in 1..Len(df) : "vlRecPo" \in DOMAIN df[i]
    /\ pc \in {"sort", "done"} =>
        /\ \A i \in 1..Len(df) : "vlRecPo" \in DOMAIN df[i]
        /\ \A i, j \in 1..Len(df) : i /= j => OutTriple(df[i]) /= OutTriple(df[j])

\* The run is over for a batch in which two invoices share a po, so that the
\* join gave two rows for each of their lines.
C24_Witness ==
    /\ pc = "done"
    /\ \E g, h \in 1..Len(df_po) :
        /\ g /= h /\ df_po[g].po = df_po[h].po
        /\ \E i \in 1..Len(df) : df[i].po = Some(df_po[g].po)

\* two documents describe the same invoice: same Id attribute, invoice
\* number and issuer
SameInvoice(x, y) == x.Id = y.Id /\ x.nNF = y.nNF /\ x.emit = y.emit

\* C25: while po is text, the po of a row is the candidate of an extracted
\* line of the same source invoice, also for documents without Id attribute.
C25_HintStaysInInvoice ==
    pc \in PoIsText =>
        \A i \in 1..Len(df) :
            ~IsNaN(df[i].po) =>
                \E k \in 1..Len(dados) :
                    /\ SameInvoice(all_files[FileOf(k)], all_files[FileOf(df[i].index + 1)])
                    /\ Candidate(k) = df[i].po[1]

Reverse(s) == [i \in 1..Len(s) |-> s[Len(s) + 1 - i]]

\* the rows of a frame as a set, without the row labels
RowSet(rows) == {DropColumn(rows[i], "index") : i \in 1..Len(rows)}

RunAgrees == pc = "done" => df = Run(all_files).df

\* C26: when the run is over, the set of output rows is the one the run gives
\* on the same documents listed in the opposite order.
C26_OrderIndependent ==
    pc = "done" => RowSet(df) = RowSet(Run(Reverse(all_files)).df)

\* the rows of a frame whose po is null
Unresolved(rows) == SelectSeq(rows, LAMBDA r : IsNaN(r.po))

\* the rollup keys of the rows of a frame whose po is not null
ResolvedKeys(rows) == {<<rows[i].chNfe, rows[i].po[1]>> : i \in {j \in 1..Len(rows) : ~IsNaN(rows[j].po)}}

\* C27: the rollup groups are exactly the (invoice key, po) pairs of the rows
\* with a po; the join gives one row for each row without po, and from the
\* join to the final output the rows without po have null po_total_value and
\* po_line_count.
C27_UnresolvedExcluded ==
    /\ [](pc = "merge" =>
            {<<df_po[g].chNfe, df_po[g].po>> : g \in 1..Len(df_po)} = ResolvedKeys(df))
    /\ [](pc \in {"drop_duplicates_2", "sort", "done"} =>
            \A i \in 1..Len(df) :
                IsNaN(df[i].po) => IsNaN(df[i].vlRecPo) /\ IsNaN(df[i].qtdNfPo))
    /\ [][pc = "merge" /\ pc' = "drop_duplicates_2" =>
            Len(Unresolved(df')) = Len(Unresolved(df))]_vars

\* The run is over with lines of two invoices without po in the output.
C27_Witness ==
    /\ pc = "done"
    /\ \E i, j \in 1..Len(df) :
        /\ IsNaN(df[i].po) /\ IsNaN(df[j].po)
        /\ df[i].chNfe /= df[j].chNfe

\* the dedup key of the k-th extracted line, as the first pass builds it
KeyOfLine(k) == ConcatKey(dados[k].nNf, dados[k].itemNf, dados[k].nomeMaterial)

\* C28: right after the first line dedup, an extracted line is gone exactly
\* when an earlier line of the batch has its key (so each key keeps its first
\* line and only that one), and the rows left are in batch order.
C28_KeepsFirst ==
    pc = "format_date" =>
        /\ \A k \in 1..Len(dados) :
            Dropped(k) <=> \E j \in 1..(k - 1) : KeyOfLine(j) = KeyOfLine(k)
        /\ \A i, j \in 1..Len(df) : i < j => df[i].index < df[j].index

\* The first dedup has removed a line, and kept a line that comes after it
\* in the batch.
C28_Witness ==
    /\ pc = "format_date"
    /\ \E k \in 1..Len(dados) :
        /\ Dropped(k)
        /\ \E i \in 1..Len(df) : df[i].index > k - 1

\* the text is a number written in decimal digits
IsNumberText(t) ==
    /\ Len(t) > 0
    /\ \A n \in 1..Len(t) : CharAt(t, n) \in {"0", "1", "2", "3", "4", "5", "6", "7", "8", "9"}

\* number is the canonical writing of the number that text writes: the
\* text without its leading zeros
SameNumber(text, number) ==
    /\ IsNumberText(number)
    /\ Len(number) > 1 => CharAt(number, 1) /= "0"
    /\ \E z \in 0..Len(text) :
        /\ \A n \in 1..z : CharAt(text, n) = "0"
        /\ SubSeq(text, z + 1, Len(text)) = number \/ (z = Len(text) /\ number = "0")

\* new is what the coercion makes of the cell old of a key column
Coerced(old, new) ==
    IF ~IsNaN(old) /\ IsNumberText(old[1])
    THEN ~IsNaN(new) /\ SameNumber(old[1], new[1])
    ELSE IsNaN(new)

StatedStage(p) ==
    CASE p \in {"extract", "convert_to_decimal"} -> 0
      [] p = "vlNf" -> 1
      [] p \in {"concat", "po", "first_po", "drop_duplicates"} -> 2
      [] p = "formatar_numero" -> 3
      [] p = "format_date" -> 4
      [] p \in {"convert_columns_to_numeric", "sort_dtEmi", "select", "cnpj"} -> 5
      [] p \in {"df_po", "merge"} -> 6
      [] p = "drop_duplicates_2" -> 7
      [] p = "sort" -> 8
      [] OTHER -> 9

\* C30 as stated: no step of the run goes back in the sequence per-invoice
\* total, line dedup, fixed-point normalization, date normalization,
\* numeric-key coercion with tax-id padding, PO rollup, second dedup, sort.
C30_StatedSequence ==
    [][pc' /= "aborted" => StatedStage(pc) <= StatedStage(pc')]_pc

\* the place of each statement group in the sequence fixed-point
\* normalization (1), per-invoice total (2), line dedup (3), date
\* normalization (4), numeric-key coercion with tax-id padding (5), PO
\* rollup (6), second dedup (7), sort (8)
Stage(p) ==
    CASE p \in {"extract", "convert_to_decimal"} -> 0
      [] p = "formatar_numero" -> 1
      [] p = "vlNf" -> 2
      [] p \in {"concat", "po", "first_po", "drop_duplicates"} -> 3
      [] p = "format_date" -> 4
      [] p \in {"convert_columns_to_numeric", "sort_dtEmi", "select", "cnpj"} -> 5
      [] p \in {"df_po", "merge"} -> 6
      [] p = "drop_duplicates_2" -> 7
      [] p = "sort" -> 8
      [] OTHER -> 9

\* C30, amended: every step of the run that does not raise stays in its
\* place of the sequence fixed-point normalization, per-invoice total, line
\* dedup, date normalization, numeric-key coercion with tax-id padding, PO
\* rollup, second dedup, sort, or moves to the next place.
C30_Sequence ==
    [][pc' /= "aborted" => Stage(pc') \in {Stage(pc), Stage(pc) + 1}]_pc

\* The run is over with rows in the output.
C30_Witness == pc = "done" /\ Len(df) > 0 /\ \A i \in 1..Len(df) : "vlRecPo" \in DOMAIN df[i]

====
